---- MODULE Spec2Model ----
(***************************************************************************)
(* Model of rustreleaser's brew formula publication:                       *)
(*   - Targets::from (src/brew/mod.rs), the derivation of the formula's    *)
(*     targets from the release packages,                                  *)
(*   - Brew::new and captalize, the assembly of the formula,               *)
(*   - release and push_formula, the publication workflow, one action per  *)
(*     fallible step (each `?` of the source is one exit of an action),    *)
(*   - CreatePullRequestBuilder (src/github/builder), whose execute decides *)
(*     what reaches the hosting client.                                    *)
(* A String the code takes apart (the formula name) is a sequence of       *)
(* characters; every other String is an opaque TLA+ string.  Option<T> is  *)
(* a sequence of length at most one.                                       *)
(***************************************************************************)
EXTENDS Integers, Sequences, FiniteSets, TLC

VARIABLES
    brew_config,     \* run -> BrewConfig, release's first argument
    packages,        \* run -> Vec<Package>, release's second argument
    is_multitarget,  \* run -> bool, release's third argument
    pc,              \* run -> the step the run is at (or failed at)
    outcome,         \* run -> "running" | "ok" | "err" | "panic"
    tag,             \* run -> Option<String>, git::get_current_tag()
    brew,            \* run -> Option<Brew>, release's `brew`
    data,            \* run -> Option<String>, release's `data`
    pf,              \* run -> the locals of push_formula
    err,             \* run -> Option<anyhow::Error> returned by release
    ret,             \* run -> Option<String>, the Ok value of release
    calls,           \* run -> the requests the run has sent to the hosting service
    fs,              \* the local file system: file name -> content
    written,         \* run -> Option<String>, what the run's write_file has written
    remote           \* the hosting service: the branches and pull requests created

vars == <<brew_config, packages, is_multitarget, pc, outcome, tag, brew, data,
          pf, err, ret, calls, fs, written, remote>>

inputs == <<brew_config, packages, is_multitarget>>

(***************************************************************************)
(* Bounds of the checked instances.                                        *)
(***************************************************************************)
MaxPkgs == 3
MaxNameLen == 3

(***************************************************************************)
(* Option<T>                                                               *)
(***************************************************************************)
None == <<>>
Some(x) == <<x>>
is_some(o) == o # <<>>
is_none(o) == o = <<>>
unwrap_or(o, d) == IF o = <<>> THEN d ELSE o[1]
unwrap_or_default(o, d) == IF o = <<>> THEN d ELSE o[1]
Opt(S) == {None} \cup {Some(x) : x \in S}

(***************************************************************************)
(* Program constants.                                                      *)
(***************************************************************************)
DEFAULT_BASE_BRANCH_NAME == "main"
DEFAULT_COMMIT_MESSAGE == "update formula"
Committer_default == [author |-> "Rafael Vigo", email |-> "rvigo07+github@gmail.com"]

\* impl From<CommitterConfig> for Committer
Committer_from(value) == [author |-> value.name, email |-> value.email]

(***************************************************************************)
(* captalize: format!("{}{s}", s.remove(0).to_uppercase()).                *)
(* String::remove(0) panics on the empty string; char::to_uppercase may    *)
(* yield more than one character.                                          *)
(***************************************************************************)
to_uppercase(c) ==
    CASE c = "f" -> <<"F">>
      [] c = "o" -> <<"O">>
      [] c = "sz" -> <<"S", "S">>
      [] OTHER -> <<c>>

\* The result of a call that may panic.
Panic == [panicked |-> TRUE]
Value(v) == [panicked |-> FALSE, value |-> v]

captalize(s) ==
    IF Len(s) = 0 THEN Panic
    ELSE Value(to_uppercase(Head(s)) \o Tail(s))

\* Mutant: every formula is written to the same local file.
FileName_fixed(name) == <<"formula", ".rb">>

\* format!("{}.rb", brew.name)
FileName(name) == name \o <<".rb">>

(***************************************************************************)
(* impl From<Vec<Package>> for Targets.                                    *)
(* A Package is [os, arch, url, sha256] with os and arch Options.          *)
(***************************************************************************)
unwrap(o) == o[1]

\* The length of the first run of elements with the key of value[1]:
\* itertools' group_by starts a new group each time the key changes.
\* Mutant: every artifact opens a group of its own.
RunLength_one(value) == 1

RunLength(value) ==
    CHOOSE n \in 1..Len(value) :
        /\ \A i \in 1..n : value[i].os = value[1].os
        /\ n = Len(value) \/ value[n + 1].os # value[1].os

RECURSIVE group_by(_)
group_by(value) ==
    IF value = <<>> THEN <<>>
    ELSE LET n == RunLength(value)
         IN  <<[key |-> value[1].os, items |-> SubSeq(value, 1, n)]>>
                 \o group_by(SubSeq(value, n + 1, Len(value)))

BrewArch(p) == [arch |-> unwrap(p.arch), url |-> p.url, hash |-> p.sha256]

MultiTarget(g) ==
    [kind |-> "Multi",
     os |-> unwrap(g.key),
     archs |-> [j \in 1..Len(g.items) |-> BrewArch(g.items[j])]]

SingleTarget(p) == [kind |-> "Single", url |-> p.url, hash |-> p.sha256]

\* The multi-target branch is taken: value[0] has os or arch set.
MultiBranch(value) ==
    /\ value # <<>>
    /\ ~(is_none(value[1].arch) /\ is_none(value[1].os))

\* g.0.unwrap() or p.arch.unwrap() meets a None while the groups are collected.
UnwrapsNone(value) ==
    \E i \in 1..Len(value) : is_none(value[i].os) \/ is_none(value[i].arch)

\* Mutant: the single target is built from the last artifact.
Targets_from_last(value) ==
    IF value = <<>> THEN Value(<<>>)
    ELSE IF is_none(value[1].arch) /\ is_none(value[1].os)
         THEN Value(<<SingleTarget(value[Len(value)])>>)
         ELSE IF UnwrapsNone(value) THEN Panic
              ELSE LET group == group_by(value)
                   IN  Value([i \in 1..Len(group) |-> MultiTarget(group[i])])

\* Mutant: the single-target branch keeps every artifact.
Targets_from_every(value) ==
    IF value = <<>> THEN Value(<<>>)
    ELSE IF is_none(value[1].arch) /\ is_none(value[1].os)
         THEN Value([i \in 1..Len(value) |-> SingleTarget(value[i])])
         ELSE IF UnwrapsNone(value) THEN Panic
              ELSE LET group == group_by(value)
                   IN  Value([i \in 1..Len(group) |-> MultiTarget(group[i])])

\* Mutant: artifacts without os or arch are skipped instead of unwrapped.
Targets_from_skip(value) ==
    IF value = <<>> THEN Value(<<>>)
    ELSE IF is_none(value[1].arch) /\ is_none(value[1].os)
         THEN Value(<<SingleTarget(value[1])>>)
         ELSE LET kept == SelectSeq(value, LAMBDA p : is_some(p.os) /\ is_some(p.arch))
                  group == group_by(kept)
              IN  Value([i \in 1..Len(group) |-> MultiTarget(group[i])])

Targets_from(value) ==
    IF value = <<>> THEN Value(<<>>)
    ELSE IF is_none(value[1].arch) /\ is_none(value[1].os)
         THEN Value(<<SingleTarget(value[1])>>)
         ELSE IF UnwrapsNone(value) THEN Panic
              ELSE LET group == group_by(value)
                   IN  Value([i \in 1..Len(group) |-> MultiTarget(group[i])])

(***************************************************************************)
(* Brew::new                                                               *)
(***************************************************************************)
Brew_new(cfg, version, pkgs) ==
    LET name == captalize(cfg.name)
        targets == Targets_from(pkgs)
    IN  IF name.panicked \/ targets.panicked THEN Panic
        ELSE Value([name |-> name.value,
                    repository |-> cfg.repository,
                    version |-> version,
                    targets |-> targets.value,
                    head |-> unwrap_or(cfg.head, DEFAULT_BASE_BRANCH_NAME),
                    commit_message |->
                        unwrap_or(cfg.commit_message, DEFAULT_COMMIT_MESSAGE),
                    commit_author |-> cfg.commit_author,
                    pull_request |-> cfg.pull_request])

\* release's choice of the template
TemplateOf(multi) == IF multi THEN "MultiTarget" ELSE "SingleTarget"

\* serialize_brew: the text handlebars renders from the template and the
\* formula; two renderings are the same text iff template and formula agree.
serialize_brew(b, template) == [template |-> template, formula |-> b]

(***************************************************************************)
(* CreatePullRequestBuilder                                                *)
(***************************************************************************)
CreatePullRequestBuilder_new(owner, repo) ==
    [owner |-> owner, repo |-> repo, title |-> "", body |-> None,
     labels |-> None, assignees |-> None, committer |-> None,
     base |-> None, head |-> None]

Builder_title(b, title) == [b EXCEPT !.title = title]
Builder_body(b, body) == [b EXCEPT !.body = Some(body)]
Builder_labels(b, labels) == [b EXCEPT !.labels = Some(labels)]
Builder_assignees(b, assignees) == [b EXCEPT !.assignees = Some(assignees)]
Builder_committer(b, committer) == [b EXCEPT !.committer = Some(committer)]
Builder_base(b, base) == [b EXCEPT !.base = Some(base)]
Builder_head(b, head) == [b EXCEPT !.head = Some(head)]

\* execute: the arguments of github_client::instance().create_pull_request
Builder_execute(b) ==
    [op |-> "create_pull_request",
     owner |-> b.owner,
     repo |-> b.repo,
     title |-> b.title,
     head |-> unwrap(b.head),
     base |-> unwrap(b.base),
     body |-> b.body,
     assignees |-> unwrap_or_default(b.assignees, <<>>),
     labels |-> unwrap_or_default(b.labels, <<>>)]

(***************************************************************************)
(* The inputs of the checked instances.                                    *)
(***************************************************************************)
OsTags == {"linux", "darwin"}
ArchTags == {"amd64", "arm64"}

\* The i-th package of a release: every asset has its own url and checksum.
Package(os, arch, i) ==
    [os |-> os, arch |-> arch,
     url |-> <<"url", i>>, sha256 |-> <<"sha256", i>>]

\* All package lists of length n.
PackageLists(n) ==
    {[i \in 1..n |-> Package(t[i][1], t[i][2], i)] :
        t \in [1..n -> Opt(OsTags) \X Opt(ArchTags)]}

AllPackageLists == UNION {PackageLists(n) : n \in 0..MaxPkgs}

Chars == {"f", "o", "F", "1", "sz"}

AllNames == UNION {[1..n -> Chars] : n \in 0..MaxNameLen}

Foo == <<"f", "o", "o">>

Repositories == {[owner |-> "acme", name |-> "homebrew-tap"]}

CommitterConfigs == {[name |-> "Ann", email |-> "ann@example.org"]}

PullRequestConfigs ==
    [title : Opt({"Bump formula"}),
     body : Opt({"release notes"}),
     labels : Opt({<<"bot">>}),
     assignees : Opt({<<"ann">>}),
     head : Opt({"bump-1"}),
     base : Opt({"release"})]

BrewConfigs ==
    [name : {<<>>, Foo},
     head : Opt({"dev"}),
     commit_message : Opt({"bump"}),
     commit_author : Opt(CommitterConfigs),
     repository : Repositories,
     pull_request : Opt(PullRequestConfigs)]

\* The plain configuration: every optional field omitted.
PlainConfig(name) ==
    [name |-> name, head |-> None, commit_message |-> None,
     commit_author |-> None,
     repository |-> [owner |-> "acme", name |-> "homebrew-tap"],
     pull_request |-> None]

WorkflowPackages ==
    {<<>>,
     <<Package(None, None, 1)>>,
     <<Package(Some("linux"), Some("amd64"), 1), Package(Some("darwin"), Some("arm64"), 2)>>,
     <<Package(Some("linux"), Some("amd64"), 1), Package(Some("linux"), None, 2)>>,
     <<Package(None, Some("amd64"), 1)>>}

Tags == {"v1.0.0"}
Shas == {"a1", "b2"}

NoLocals ==
    [committer |-> None, head_branch |-> None, base_branch |-> None,
     sha |-> None, content |-> None]

\* The state at the call of release, for the runs in R.
InitRuns(R) ==
    /\ is_multitarget \in [R -> BOOLEAN]
    /\ pc = [r \in R |-> "tag"]
    /\ outcome = [r \in R |-> "running"]
    /\ tag = [r \in R |-> None]
    /\ brew = [r \in R |-> None]
    /\ data = [r \in R |-> None]
    /\ pf = [r \in R |-> NoLocals]
    /\ err = [r \in R |-> None]
    /\ ret = [r \in R |-> None]
    /\ calls = [r \in R |-> <<>>]
    /\ fs = <<>>
    /\ written = [r \in R |-> None]
    /\ remote = [branches |-> {}, pulls |-> {}]

\* One call of release, on every configuration and each of the package lists.
Init ==
    /\ brew_config \in [{1} -> BrewConfigs]
    /\ packages \in [{1} -> WorkflowPackages]
    /\ InitRuns({1})

\* Brew::new on every package list and on every name.
InitPure ==
    /\ \/ /\ brew_config = [r \in {1} |-> PlainConfig(Foo)]
          /\ packages \in [{1} -> AllPackageLists]
       \/ /\ brew_config \in [{1} -> {PlainConfig(n) : n \in AllNames}]
          /\ packages = [r \in {1} |-> <<>>]
    /\ InitRuns({1})

(***************************************************************************)
(* release and push_formula, step by step.                                 *)
(***************************************************************************)
Running(r, at) == pc[r] = at /\ outcome[r] = "running"

\* The .context(...) each fallible step attaches to its error, if any.
StepContext(step) ==
    CASE step = "get_commit_sha" -> Some("error getting the base branch commit sha")
      [] step = "create_branch" -> Some("error creating the branch")
      [] step = "upsert_file" -> Some("error uploading file to head branch")
      [] step = "create_pull_request" -> Some("error creating pull request")
      [] step = "direct" -> Some("error uploading file to main branch")
      [] OTHER -> None

\* The kind of error each fallible step fails with.
StepCause(step) ==
    CASE step = "tag" -> "git"
      [] step = "render" -> "template"
      [] step \in {"write", "read"} -> "io"
      [] OTHER -> "remote"

\* `?`: the error of the step the run is at leaves release.
Fail(r) ==
    /\ outcome' = [outcome EXCEPT ![r] = "err"]
    /\ err' = [err EXCEPT ![r] =
                 Some([context |-> StepContext(pc[r]), cause |-> StepCause(pc[r])])]
    /\ UNCHANGED <<pc, ret>>

Goto(r, at) ==
    /\ pc' = [pc EXCEPT ![r] = at]
    /\ UNCHANGED <<outcome, err, ret>>

\* Mutant: the run stops after its last call and never hands back a result.
Return_pending(r) ==
    /\ pc' = [pc EXCEPT ![r] = "done"]
    /\ UNCHANGED <<outcome, err, ret>>

\* Ok(data)
Return(r) ==
    /\ pc' = [pc EXCEPT ![r] = "done"]
    /\ outcome' = [outcome EXCEPT ![r] = "ok"]
    /\ ret' = [ret EXCEPT ![r] = data[r]]
    /\ UNCHANGED err

\* The hosting service after a create_branch request succeeded.
BranchCreated(host, request) ==
    [host EXCEPT !.branches = @ \cup {<<request.owner, request.repo, request.branch>>}]

\* The hosting service after a create_pull_request request succeeded.
PullRequestOpened(host, request) ==
    [host EXCEPT !.pulls = @ \cup {<<request.owner, request.repo, request.head,
                                     request.base>>}]

\* A request is sent to the hosting service and answered with ok.
Send(r, request, ok) ==
    calls' = [calls EXCEPT ![r] = Append(@, [request |-> request, ok |-> ok])]

\* git::get_current_tag()?
GetCurrentTag(r) ==
    /\ Running(r, "tag")
    /\ \/ \E t \in Tags : tag' = [tag EXCEPT ![r] = Some(t)] /\ Goto(r, "new")
       \/ Fail(r) /\ UNCHANGED tag
    /\ UNCHANGED <<inputs, brew, data, pf, calls, fs, written, remote>>

\* Brew::new(brew_config, tag, packages)
NewBrew(r) ==
    /\ Running(r, "new")
    /\ LET new == Brew_new(brew_config[r], unwrap(tag[r]), packages[r])
       IN  IF new.panicked
           THEN /\ outcome' = [outcome EXCEPT ![r] = "panic"]
                /\ UNCHANGED <<pc, err, ret, brew>>
           ELSE /\ brew' = [brew EXCEPT ![r] = Some(new.value)]
                /\ Goto(r, "render")
    /\ UNCHANGED <<inputs, tag, data, pf, calls, fs, written, remote>>

\* Mutant: the template follows the kind of the derived targets.
Render_by_shape(r) ==
    /\ Running(r, "render")
    /\ \/ /\ data' = [data EXCEPT ![r] =
                Some(serialize_brew(unwrap(brew[r]),
                                    TemplateOf(\E i \in 1..Len(unwrap(brew[r]).targets) :
                                                  unwrap(brew[r]).targets[i].kind = "Multi")))]
          /\ Goto(r, "write")
       \/ Fail(r) /\ UNCHANGED data
    /\ UNCHANGED <<inputs, tag, brew, pf, calls, fs, written, remote>>

\* let data = serialize_brew(&brew, template)?
Render(r) ==
    /\ Running(r, "render")
    /\ \/ /\ data' = [data EXCEPT ![r] =
                Some(serialize_brew(unwrap(brew[r]), TemplateOf(is_multitarget[r])))]
          /\ Goto(r, "write")
       \/ Fail(r) /\ UNCHANGED data
    /\ UNCHANGED <<inputs, tag, brew, pf, calls, fs, written, remote>>

\* fs::write(file_name, data)
fs_write(files, name, content) ==
    [f \in DOMAIN files \cup {name} |-> IF f = name THEN content ELSE files[f]]

\* Mutant: the result of write_file is not checked.
WriteFile_unchecked(r) ==
    /\ Running(r, "write")
    /\ \/ /\ fs' = fs_write(fs, FileName(unwrap(brew[r]).name), unwrap(data[r]))
          /\ written' = [written EXCEPT ![r] = data[r]]
       \/ UNCHANGED <<fs, written>>
    /\ Goto(r, IF is_some(unwrap(brew[r]).pull_request) THEN "push_formula" ELSE "direct")
    /\ UNCHANGED <<inputs, tag, brew, data, pf, calls, remote>>

\* write_file(format!("{}.rb", brew.name), &data)?, then the choice of the path
WriteFile(r) ==
    /\ Running(r, "write")
    /\ \/ /\ fs' = fs_write(fs, FileName(unwrap(brew[r]).name), unwrap(data[r]))
          /\ written' = [written EXCEPT ![r] = data[r]]
          /\ Goto(r, IF is_some(unwrap(brew[r]).pull_request)
                     THEN "push_formula" ELSE "direct")
       \/ Fail(r) /\ UNCHANGED <<fs, written>>
    /\ UNCHANGED <<inputs, tag, brew, data, pf, calls, remote>>

\* The upsert_file request on brew.head of the direct path.
\* Mutant: the direct upload always goes to the default branch.
DirectUpsertRequest_main(b, content) ==
    [op |-> "upsert_file",
     owner |-> b.repository.owner,
     repo |-> b.repository.name,
     branch |-> DEFAULT_BASE_BRANCH_NAME,
     path |-> FileName(b.name),
     message |-> b.commit_message,
     content |-> content,
     committer |-> None]

DirectUpsertRequest(b, content) ==
    [op |-> "upsert_file",
     owner |-> b.repository.owner,
     repo |-> b.repository.name,
     branch |-> b.head,
     path |-> FileName(b.name),
     message |-> b.commit_message,
     content |-> content,
     committer |-> None]

DirectUpsert(r) ==
    /\ Running(r, "direct")
    /\ \/ /\ Send(r, DirectUpsertRequest(unwrap(brew[r]), unwrap(data[r])), TRUE)
          /\ Return(r)
       \/ /\ Send(r, DirectUpsertRequest(unwrap(brew[r]), unwrap(data[r])), FALSE)
          /\ Fail(r)
    /\ UNCHANGED <<inputs, tag, brew, data, pf, fs, written, remote>>

\* push_formula's resolution of the committer and of the two branches
ResolveCommitter(b) ==
    IF is_some(b.commit_author) THEN Committer_from(unwrap(b.commit_author))
    ELSE Committer_default

\* Mutant: an omitted head branch falls back to the base branch default.
ResolveHeadBranch_main(pull_request) == unwrap_or(pull_request.head, DEFAULT_BASE_BRANCH_NAME)

ResolveHeadBranch(pull_request) == unwrap_or(pull_request.head, "bumps-formula-version")

ResolveBaseBranch(pull_request) == unwrap_or(pull_request.base, DEFAULT_BASE_BRANCH_NAME)

PushFormula(r) ==
    /\ Running(r, "push_formula")
    /\ LET b == unwrap(brew[r])
           pull_request == unwrap(b.pull_request)
       IN  pf' = [pf EXCEPT ![r] =
                    [committer |-> Some(ResolveCommitter(b)),
                     head_branch |-> Some(ResolveHeadBranch(pull_request)),
                     base_branch |-> Some(ResolveBaseBranch(pull_request)),
                     sha |-> None,
                     content |-> None]]
    /\ Goto(r, "get_commit_sha")
    /\ UNCHANGED <<inputs, tag, brew, data, calls, fs, written, remote>>

GetCommitShaRequest(b, base_branch) ==
    [op |-> "get_commit_sha",
     owner |-> b.repository.owner,
     repo |-> b.repository.name,
     branch |-> base_branch]

\* Mutant: a failed lookup of the base branch is tried again.
GetCommitSha_retry(r) ==
    /\ Running(r, "get_commit_sha")
    /\ LET request == GetCommitShaRequest(unwrap(brew[r]), unwrap(pf[r].base_branch))
       IN  \/ /\ Send(r, request, TRUE)
              /\ \E sha \in Shas : pf' = [pf EXCEPT ![r].sha = Some(sha)]
              /\ Goto(r, "create_branch")
           \/ /\ Send(r, request, FALSE)
              /\ UNCHANGED <<pc, outcome, err, ret, pf>>
    /\ UNCHANGED <<inputs, tag, brew, data, fs, written, remote>>

GetCommitSha(r) ==
    /\ Running(r, "get_commit_sha")
    /\ LET request == GetCommitShaRequest(unwrap(brew[r]), unwrap(pf[r].base_branch))
       IN  \/ /\ Send(r, request, TRUE)
              /\ \E sha \in Shas : pf' = [pf EXCEPT ![r].sha = Some(sha)]
              /\ Goto(r, "create_branch")
           \/ /\ Send(r, request, FALSE)
              /\ Fail(r)
              /\ UNCHANGED pf
    /\ UNCHANGED <<inputs, tag, brew, data, fs, written, remote>>

CreateBranchRequest(b, head_branch, sha) ==
    [op |-> "create_branch",
     owner |-> b.repository.owner,
     repo |-> b.repository.name,
     branch |-> head_branch,
     sha |-> sha]

\* Mutant: the result of the branch creation is not checked.
CreateBranch_unchecked(r) ==
    /\ Running(r, "create_branch")
    /\ LET request == CreateBranchRequest(unwrap(brew[r]), unwrap(pf[r].head_branch),
                                          unwrap(pf[r].sha))
       IN  \/ /\ Send(r, request, TRUE)
              /\ remote' = BranchCreated(remote, request)
              /\ Goto(r, "read")
           \/ /\ Send(r, request, FALSE)
              /\ Goto(r, "read")
              /\ UNCHANGED remote
    /\ UNCHANGED <<inputs, tag, brew, data, pf, fs, written>>

CreateBranch(r) ==
    /\ Running(r, "create_branch")
    /\ LET request == CreateBranchRequest(unwrap(brew[r]), unwrap(pf[r].head_branch),
                                          unwrap(pf[r].sha))
       IN  \/ /\ Send(r, request, TRUE)
              /\ remote' = BranchCreated(remote, request)
              /\ Goto(r, "read")
           \/ /\ Send(r, request, FALSE)
              /\ Fail(r)
              /\ UNCHANGED remote
    /\ UNCHANGED <<inputs, tag, brew, data, pf, fs, written>>

\* Mutant: the re-read takes whichever formula file lies in the directory.
ReadFile_any(r) ==
    /\ Running(r, "read")
    /\ \/ \E name \in DOMAIN fs :
              /\ pf' = [pf EXCEPT ![r].content = Some(fs[name])]
              /\ Goto(r, "upsert_file")
       \/ Fail(r) /\ UNCHANGED pf
    /\ UNCHANGED <<inputs, tag, brew, data, calls, fs, written, remote>>

\* let content = fs::read_to_string(format!("{}.rb", brew.name))?
ReadFile(r) ==
    /\ Running(r, "read")
    /\ LET name == FileName(unwrap(brew[r]).name)
       IN  \/ /\ name \in DOMAIN fs
              /\ pf' = [pf EXCEPT ![r].content = Some(fs[name])]
              /\ Goto(r, "upsert_file")
           \/ Fail(r) /\ UNCHANGED pf
    /\ UNCHANGED <<inputs, tag, brew, data, calls, fs, written, remote>>

UpsertFileRequest(b, head_branch, content, committer) ==
    [op |-> "upsert_file",
     owner |-> b.repository.owner,
     repo |-> b.repository.name,
     branch |-> head_branch,
     path |-> FileName(b.name),
     message |-> b.commit_message,
     content |-> content,
     committer |-> Some(committer)]

\* Mutant: a failed upload is compensated by deleting the head branch.
UpsertFile_rollback(r) ==
    /\ Running(r, "upsert_file")
    /\ LET request == UpsertFileRequest(unwrap(brew[r]), unwrap(pf[r].head_branch),
                                        unwrap(pf[r].content), unwrap(pf[r].committer))
           undo == [op |-> "delete_branch", owner |-> request.owner,
                    repo |-> request.repo, branch |-> request.branch]
       IN  \/ /\ Send(r, request, TRUE)
              /\ Goto(r, "create_pull_request")
              /\ UNCHANGED remote
           \/ /\ calls' = [calls EXCEPT ![r] =
                              @ \o <<[request |-> request, ok |-> FALSE],
                                     [request |-> undo, ok |-> TRUE]>>]
              /\ remote' = [remote EXCEPT !.branches =
                                @ \ {<<request.owner, request.repo, request.branch>>}]
              /\ Fail(r)
    /\ UNCHANGED <<inputs, tag, brew, data, pf, fs, written>>

\* Mutant: the upload carries the in-memory rendering, not the text re-read.
UpsertFile_inmemory(r) ==
    /\ Running(r, "upsert_file")
    /\ LET request == UpsertFileRequest(unwrap(brew[r]), unwrap(pf[r].head_branch),
                                        unwrap(data[r]), unwrap(pf[r].committer))
       IN  \/ /\ Send(r, request, TRUE)
              /\ Goto(r, "create_pull_request")
           \/ /\ Send(r, request, FALSE)
              /\ Fail(r)
    /\ UNCHANGED <<inputs, tag, brew, data, pf, fs, written, remote>>

UpsertFile(r) ==
    /\ Running(r, "upsert_file")
    /\ LET request == UpsertFileRequest(unwrap(brew[r]), unwrap(pf[r].head_branch),
                                        unwrap(pf[r].content), unwrap(pf[r].committer))
       IN  \/ /\ Send(r, request, TRUE)
              /\ Goto(r, "create_pull_request")
           \/ /\ Send(r, request, FALSE)
              /\ Fail(r)
    /\ UNCHANGED <<inputs, tag, brew, data, pf, fs, written, remote>>

\* The builder push_formula fills for the pull request.
PullRequestBuilder(b, head_branch, base_branch, committer) ==
    LET pull_request == unwrap(b.pull_request)
        b0 == CreatePullRequestBuilder_new(b.repository.owner, b.repository.name)
        b1 == Builder_assignees(b0, unwrap_or_default(pull_request.assignees, <<>>))
        b2 == Builder_base(b1, base_branch)
        b3 == Builder_head(b2, head_branch)
        b4 == Builder_body(b3, unwrap_or_default(pull_request.body, ""))
        b5 == Builder_labels(b4, unwrap_or_default(pull_request.labels, <<>>))
        b6 == Builder_title(b5, unwrap_or_default(pull_request.title, ""))
    IN  Builder_committer(b6, committer)

CreatePullRequest(r) ==
    /\ Running(r, "create_pull_request")
    /\ LET request == Builder_execute(
                          PullRequestBuilder(unwrap(brew[r]), unwrap(pf[r].head_branch),
                                             unwrap(pf[r].base_branch),
                                             unwrap(pf[r].committer)))
       IN  \/ /\ Send(r, request, TRUE)
              /\ remote' = PullRequestOpened(remote, request)
              /\ Return(r)
           \/ /\ Send(r, request, FALSE)
              /\ Fail(r)
              /\ UNCHANGED remote
    /\ UNCHANGED <<inputs, tag, brew, data, pf, fs, written>>

Next ==
    \/ \E r \in DOMAIN pc : GetCurrentTag(r)
    \/ \E r \in DOMAIN pc : NewBrew(r)
    \/ \E r \in DOMAIN pc : Render(r)
    \/ \E r \in DOMAIN pc : WriteFile(r)
    \/ \E r \in DOMAIN pc : DirectUpsert(r)
    \/ \E r \in DOMAIN pc : PushFormula(r)
    \/ \E r \in DOMAIN pc : GetCommitSha(r)
    \/ \E r \in DOMAIN pc : CreateBranch(r)
    \/ \E r \in DOMAIN pc : ReadFile(r)
    \/ \E r \in DOMAIN pc : UpsertFile(r)
    \/ \E r \in DOMAIN pc : CreatePullRequest(r)

Spec == Init /\ [][Next]_vars

NextPure ==
    \/ \E r \in DOMAIN pc : GetCurrentTag(r)
    \/ \E r \in DOMAIN pc : NewBrew(r)

SpecPure == InitPure /\ [][NextPure]_vars

\* The is_multitarget argument of the call of release in main.
main_is_multitarget == FALSE

(***************************************************************************)
(* One run of release driven to completion: main awaits the future, and    *)
(* every call a step makes returns, so a step that can be taken is taken.  *)
(***************************************************************************)
SpecLive == Init /\ [][Next]_vars /\ WF_vars(Next)

(***************************************************************************)
(* One run of release while another process edits the local formula file.  *)
(***************************************************************************)
\* A formula text after it was edited by hand.
Edited(text) == [template |-> text.template, formula |-> text.formula, edited |-> TRUE]

\* Another process rewrites the local file f.
EditFile(f) ==
    /\ "edited" \notin DOMAIN fs[f]
    /\ fs' = [fs EXCEPT ![f] = Edited(@)]
    /\ UNCHANGED <<inputs, pc, outcome, tag, brew, data, pf, err, ret, calls,
                   written, remote>>

NextEdit ==
    \/ Next
    \/ \E f \in DOMAIN fs : EditFile(f)

SpecEdit == Init /\ [][NextEdit]_vars

(***************************************************************************)
(* Two runs of release in the same working directory.                      *)
(***************************************************************************)
\* The pull request configuration with every field omitted.
PlainPullRequest ==
    [title |-> None, body |-> None, labels |-> None, assignees |-> None,
     head |-> None, base |-> None]

\* The second run's configuration: its formula name, repository and path vary.
SecondConfigs ==
    {[PlainConfig(n) EXCEPT !.repository = rp, !.pull_request = pr] :
        n \in {Foo, <<"F", "o", "o">>, <<"o">>},
        rp \in {[owner |-> "acme", name |-> "homebrew-tap"],
                [owner |-> "acme", name |-> "homebrew-other"]},
        pr \in Opt({PlainPullRequest})}

\* Run 1 publishes "foo" by pull request; run 2 publishes another release.
InitConc ==
    /\ brew_config \in
          {<<[PlainConfig(Foo) EXCEPT !.pull_request = Some(PlainPullRequest)], c>> :
              c \in SecondConfigs}
    /\ packages = <<<<Package(None, None, 1)>>, <<Package(None, None, 2)>>>>
    /\ InitRuns({1, 2})

SpecConc == InitConc /\ [][Next]_vars

(***************************************************************************)
(* Properties.                                                             *)
(***************************************************************************)
Runs == DOMAIN pc

\* Brew::new has returned or panicked in run r.
NewBrewDone(r) == pc[r] # "tag" /\ ~Running(r, "new")

\* Every artifact has both os and arch set.
AllTagged(value) ==
    \A i \in 1..Len(value) : is_some(value[i].os) /\ is_some(value[i].arch)

\* The positions at which an os value appears for the first time.
FirstAppearances(value) ==
    {i \in 1..Len(value) : \A j \in 1..(i - 1) : value[j].os # value[i].os}

\* The k-th smallest element of a set of numbers.
RECURSIVE Nth(_, _)
Nth(S, k) ==
    LET m == CHOOSE x \in S : \A y \in S : x <= y
    IN  IF k = 1 THEN m ELSE Nth(S \ {m}, k - 1)

RECURSIVE ArchsOf(_, _)
\* The artifacts of `value` with the given os, in input order, as archs entries.
ArchsOf(value, os) ==
    IF value = <<>> THEN <<>>
    ELSE (IF value[1].os = os
          THEN <<[arch |-> value[1].arch[1], url |-> value[1].url,
                  hash |-> value[1].sha256]>>
          ELSE <<>>) \o ArchsOf(Tail(value), os)

\* One Multi entry per distinct os, in order of first appearance.
GroupedByOs(value) ==
    LET first == FirstAppearances(value)
    IN  [k \in 1..Cardinality(first) |->
            LET os == value[Nth(first, k)].os
            IN  [kind |-> "Multi", os |-> os[1], archs |-> ArchsOf(value, os)]]

\* C1: when every artifact has os and arch set, the derived targets are one
\* Multi entry per distinct os, in order of first appearance, each holding all
\* the artifacts of that os in input order, adjacent in the input or not.
C1_GroupsPerDistinctOs ==
    \A r \in Runs :
        (is_some(brew[r]) /\ packages[r] # <<>> /\ AllTagged(packages[r]))
            => unwrap(brew[r]).targets = GroupedByOs(packages[r])

\* C4: the formula name is the configured name with its first character
\* upper-cased and the rest unchanged, and an empty name ends the run with an
\* error value returned to the caller, not with a panic.
C4_CapitalizeOrConfigError ==
    \A r \in Runs :
        /\ is_some(brew[r]) =>
              /\ brew_config[r].name # <<>>
              /\ unwrap(brew[r]).name =
                    to_uppercase(brew_config[r].name[1]) \o Tail(brew_config[r].name)
        /\ (NewBrewDone(r) /\ brew_config[r].name = <<>>) =>
              /\ outcome[r] = "err"
              /\ is_some(err[r])

\* The first artifact has neither os nor arch set.
FirstUntagged(value) ==
    value # <<>> /\ is_none(value[1].os) /\ is_none(value[1].arch)

\* C5: when the first artifact has neither os nor arch, the derived targets are
\* exactly one Single target with the url and hash of the first artifact,
\* whatever follows it.
C5_SingleFromFirst ==
    \A r \in Runs :
        (NewBrewDone(r) /\ brew_config[r].name # <<>> /\ FirstUntagged(packages[r]))
            => /\ is_some(brew[r])
               /\ unwrap(brew[r]).targets =
                     <<[kind |-> "Single", url |-> packages[r][1].url,
                        hash |-> packages[r][1].sha256]>>

C5_Witness ==
    \E r \in Runs :
        /\ is_some(brew[r])
        /\ FirstUntagged(packages[r])
        /\ Len(packages[r]) >= 2
        /\ is_some(packages[r][2].os)
        /\ Len(unwrap(brew[r]).targets) = 1

\* C6: derived targets are empty, exactly one Single, or one or more Multi
\* entries, never a mix and never two Singles; no packages give no targets.
C6_SingleOrMultis ==
    \A r \in Runs :
        is_some(brew[r]) =>
            LET t == unwrap(brew[r]).targets
            IN  /\ \/ t = <<>>
                   \/ Len(t) = 1 /\ t[1].kind = "Single"
                   \/ Len(t) >= 1 /\ \A i \in 1..Len(t) : t[i].kind = "Multi"
                /\ packages[r] = <<>> => t = <<>>

C6_Witness ==
    \E r \in Runs :
        /\ is_some(brew[r])
        /\ Len(unwrap(brew[r]).targets) >= 2
        /\ \A i \in 1..Len(unwrap(brew[r]).targets) :
              unwrap(brew[r]).targets[i].kind = "Multi"

\* Some artifact of the multi-target branch lacks os or arch.
MissingTag(value) == MultiBranch(value) /\ ~AllTagged(value)

\* The run has written the local file or sent a request.
Touched(r) == fs # <<>> \/ calls[r] # <<>>

\* C10: when the multi-target branch is taken and an artifact lacks os or arch,
\* the run fails fast: Brew::new panics, no targets exist, no local file is
\* written and no request is sent.
C10_MissingTagFailsFast ==
    \A r \in Runs :
        MissingTag(packages[r]) =>
            /\ brew[r] = None
            /\ ~Touched(r)
            /\ pc[r] \in {"tag", "new"}
            /\ NewBrewDone(r) => outcome[r] = "panic"

C10_Witness ==
    \E r \in Runs :
        /\ MissingTag(packages[r])
        /\ brew_config[r].name # <<>>
        /\ is_some(packages[r][1].os) /\ is_some(packages[r][1].arch)
        /\ outcome[r] = "panic"

\* The requests of the pull-request path, in the order of push_formula.
PrOrder == <<"get_commit_sha", "create_branch", "upsert_file", "create_pull_request">>

OnPrPath(r) == is_some(brew_config[r].pull_request)

\* C2: on the pull-request path the requests are sent in the order
\* get_commit_sha, create_branch, upsert_file, create_pull_request, each only
\* after the previous one succeeded; a failed request is the last one of the
\* run and ends it with an error.
C2_PrCallsInOrder ==
    \A r \in Runs :
        OnPrPath(r) =>
            /\ Len(calls[r]) <= Len(PrOrder)
            /\ \A i \in 1..Len(calls[r]) :
                  /\ calls[r][i].request.op = PrOrder[i]
                  /\ ~calls[r][i].ok => (i = Len(calls[r]) /\ outcome[r] = "err")

C2_Witness ==
    \E r \in Runs :
        /\ OnPrPath(r)
        /\ outcome[r] = "ok"
        /\ Len(calls[r]) = 4
        /\ \A i \in 1..4 : calls[r][i].ok

\* The run chose the direct path and its upload was answered.
DirectFinished(r) ==
    ~OnPrPath(r) /\ (pc[r] = "done" \/ (pc[r] = "direct" /\ outcome[r] = "err"))

\* C3: without a pull request configuration the run sends exactly one request,
\* an upsert_file on brew.head with the rendered text, whether it succeeds or
\* fails, and never get_commit_sha, create_branch or create_pull_request.
C3_DirectSingleUpsert ==
    \A r \in Runs :
        ~OnPrPath(r) =>
            /\ Len(calls[r]) <= 1
            /\ \A i \in 1..Len(calls[r]) :
                  /\ calls[r][i].request.op = "upsert_file"
                  /\ calls[r][i].request.branch = unwrap(brew[r]).head
                  /\ calls[r][i].request.content = unwrap(data[r])
            /\ DirectFinished(r) =>
                  /\ Len(calls[r]) = 1
                  /\ calls[r][1].ok <=> outcome[r] = "ok"

C3_Witness ==
    \E r \in Runs :
        /\ DirectFinished(r)
        /\ is_some(brew_config[r].head)
        /\ outcome[r] = "ok"
        /\ Len(calls[r]) = 1

\* The remote and local I/O steps of the workflow.
IoSteps ==
    {"write", "get_commit_sha", "create_branch", "read", "upsert_file",
     "create_pull_request", "direct"}

\* C7: the error of every failed I/O step carries a context, and the context is
\* that of no other step.
C7_IoFailureHasStepContext ==
    \A r \in Runs :
        (outcome[r] = "err" /\ pc[r] \in IoSteps) =>
            /\ is_some(unwrap(err[r]).context)
            /\ \A s \in IoSteps \ {pc[r]} : StepContext(s) # unwrap(err[r]).context

\* C8: the create_pull_request request carries title, body, base, head, labels,
\* assignees and the committer that was sent with the preceding upsert_file.
C8_PullRequestCarriesCommitter ==
    \A r \in Runs :
        \A i \in 1..Len(calls[r]) :
            LET q == calls[r][i].request
                pull_request == unwrap(brew_config[r].pull_request)
            IN  q.op = "create_pull_request" =>
                    /\ q.title = unwrap_or(pull_request.title, "")
                    /\ q.body = Some(unwrap_or(pull_request.body, ""))
                    /\ q.base = unwrap(pf[r].base_branch)
                    /\ q.head = unwrap(pf[r].head_branch)
                    /\ q.labels = unwrap_or(pull_request.labels, <<>>)
                    /\ q.assignees = unwrap_or(pull_request.assignees, <<>>)
                    /\ "committer" \in DOMAIN q
                    /\ Some(q.committer) = calls[r][i - 1].request.committer

\* The value of an optional setting: the configured one, else the default.
Configured(o, default) == IF o = None THEN default ELSE o[1]

\* C9: an omitted pull-request head branch resolves to "bumps-formula-version",
\* an omitted base branch and an omitted top-level head to "main", an omitted
\* commit message to "update formula", an omitted committer to the default
\* identity; a configured value is used in place of its default.
C9_Defaults ==
    \A r \in Runs :
        LET cfg == brew_config[r]
            message == Configured(cfg.commit_message, "update formula")
        IN  /\ is_some(brew[r]) =>
                  /\ unwrap(brew[r]).head = Configured(cfg.head, "main")
                  /\ unwrap(brew[r]).commit_message = message
            /\ \A i \in 1..Len(calls[r]) :
                  LET q == calls[r][i].request
                      head_branch == Configured(unwrap(cfg.pull_request).head,
                                                "bumps-formula-version")
                      base_branch == Configured(unwrap(cfg.pull_request).base, "main")
                      committer ==
                          IF cfg.commit_author = None
                          THEN [author |-> "Rafael Vigo",
                                email |-> "rvigo07+github@gmail.com"]
                          ELSE [author |-> unwrap(cfg.commit_author).name,
                                email |-> unwrap(cfg.commit_author).email]
                  IN  /\ q.op = "get_commit_sha" => q.branch = base_branch
                      /\ q.op = "create_branch" => q.branch = head_branch
                      /\ (q.op = "upsert_file" /\ OnPrPath(r)) =>
                            /\ q.branch = head_branch
                            /\ q.message = message
                            /\ q.committer = Some(committer)
                      /\ (q.op = "upsert_file" /\ ~OnPrPath(r)) =>
                            /\ q.branch = Configured(cfg.head, "main")
                            /\ q.message = message
                      /\ q.op = "create_pull_request" =>
                            /\ q.head = head_branch
                            /\ q.base = base_branch

C9_Witness ==
    \E r \in Runs :
        /\ OnPrPath(r)
        /\ outcome[r] = "ok"
        /\ is_none(unwrap(brew_config[r].pull_request).head)
        /\ is_some(unwrap(brew_config[r].pull_request).base)
        /\ is_none(brew_config[r].commit_author)
        /\ is_some(brew_config[r].commit_message)
        /\ Len(calls[r]) = 4

\* The operations of the hosting service the workflow uses.
RemoteOps == {"get_commit_sha", "create_branch", "upsert_file", "create_pull_request"}

\* How many requests of run r were for op.
Attempts(r, op) ==
    Cardinality({i \in 1..Len(calls[r]) : calls[r][i].request.op = op})

\* C11: within one run every remote operation is attempted at most once, a
\* failed request is never sent again, and a successful pull-request run has
\* attempted each of the four operations exactly once.
C11_NoRetries ==
    \A r \in Runs :
        /\ \A op \in RemoteOps : Attempts(r, op) <= 1
        /\ \A i \in 1..Len(calls[r]) : ~calls[r][i].ok => i = Len(calls[r])
        /\ (OnPrPath(r) /\ outcome[r] = "ok") =>
              \A op \in RemoteOps : Attempts(r, op) = 1

C11_Witness ==
    \E r \in Runs :
        /\ outcome[r] = "err"
        /\ pc[r] = "get_commit_sha"
        /\ Len(calls[r]) = 1
        /\ ~calls[r][1].ok

\* The run failed at the given step.
FailedAt(r, step) == outcome[r] = "err" /\ pc[r] = step

\* C12: rendering, the local write and the remote phase are ordered and
\* short-circuit: a failed rendering leaves no file written and no request
\* sent, a failed write leaves no request sent, and a request is only sent
\* once this run has written the rendered text to <name>.rb.
C12_RenderWriteRemote ==
    \A r \in Runs :
        /\ FailedAt(r, "render") => (data[r] = None /\ written[r] = None /\ calls[r] = <<>>)
        /\ FailedAt(r, "write") => (written[r] = None /\ calls[r] = <<>>)
        /\ is_some(written[r]) => written[r] = data[r]
        /\ is_some(data[r]) =>
              unwrap(data[r]).template = TemplateOf(is_multitarget[r])
                 /\ unwrap(data[r]).formula = unwrap(brew[r])
        /\ calls[r] # <<>> =>
              /\ is_some(written[r])
              /\ FileName(unwrap(brew[r]).name) \in DOMAIN fs

C12_Witness ==
    \E r \in Runs :
        /\ Len(calls[r]) = 1
        /\ OnPrPath(r)
        /\ written[r] = data[r]
        /\ fs[FileName(unwrap(brew[r]).name)] = unwrap(data[r])

\* The name of the formula of run r, as Brew::new normalises it.
FormulaName(r) == to_uppercase(Head(brew_config[r].name)) \o Tail(brew_config[r].name)

\* Every upsert_file request of run r carries the text run r rendered.
UploadsOwnText(r) ==
    \A i \in 1..Len(calls[r]) :
        calls[r][i].request.op = "upsert_file" =>
            calls[r][i].request.content = unwrap(data[r])

\* C13 (as claimed): runs for different repositories are independent under
\* every interleaving: each run uploads the text it rendered itself.
C13_DifferentRepositoriesIndependent ==
    \A r \in Runs :
        (\A o \in Runs \ {r} : brew_config[o].repository # brew_config[r].repository)
            => UploadsOwnText(r)

\* C13 (amended): runs whose normalised formula names differ are independent
\* under every interleaving: each run uploads the text it rendered itself.
C13_DifferentNamesIndependent ==
    \A r \in Runs :
        (\A o \in Runs \ {r} : FormulaName(o) # FormulaName(r))
            => UploadsOwnText(r)

C13_Witness ==
    \E r \in Runs :
        \E o \in Runs \ {r} :
            /\ FormulaName(o) # FormulaName(r)
            /\ OnPrPath(r) /\ OnPrPath(o)
            /\ pc[o] = "read" /\ outcome[o] = "running"
            /\ Len(calls[r]) >= 3
            /\ calls[r][3].ok
            /\ calls[r][3].request.content = unwrap(data[r])

\* C14: the local file is not locked.  A run uploads a text other than its own
\* only if another run with the same formula name has written that text, so
\* with one run per formula name a run always uploads its own text; and with
\* two pull-request runs of the same name the foreign upload is reachable.
C14_OnlySameNameRaces ==
    \A r \in Runs :
        \A i \in 1..Len(calls[r]) :
            LET q == calls[r][i].request
            IN  (q.op = "upsert_file" /\ q.content # unwrap(data[r])) =>
                    \E o \in Runs \ {r} :
                        /\ FormulaName(o) = FormulaName(r)
                        /\ written[o] = Some(q.content)

C14_Witness ==
    \E r \in Runs :
        \E o \in Runs \ {r} :
            /\ OnPrPath(r) /\ OnPrPath(o)
            /\ FormulaName(o) = FormulaName(r)
            /\ Len(calls[r]) >= 3
            /\ Some(calls[r][3].request.content) = data[o]
            /\ data[o] # data[r]
            /\ written[r] = data[r]

\* The head branch of run r, as the hosting service knows it.
HeadBranchOf(r) ==
    <<unwrap(brew[r]).repository.owner, unwrap(brew[r]).repository.name,
      unwrap(pf[r].head_branch)>>

\* The number of requests a pull-request run has sent when it failed at a step.
RequestsBefore(step) ==
    CASE step = "read" -> 2
      [] step = "upsert_file" -> 3
      [] step = "create_pull_request" -> 4

\* C15: the workflow never compensates.  After create_branch succeeded, a
\* failed re-read, upload or pull-request creation ends the run in failure with
\* the head branch still on the remote, no pull request opened and no request
\* after the failed step; no request deletes or reverts anything; a failed
\* direct upload is the run's only request.
C15_NoCompensation ==
    \A r \in Runs :
        /\ \A i \in 1..Len(calls[r]) : calls[r][i].request.op \in RemoteOps
        /\ \A step \in {"read", "upsert_file", "create_pull_request"} :
              FailedAt(r, step) =>
                  /\ calls[r][2].request.op = "create_branch" /\ calls[r][2].ok
                  /\ HeadBranchOf(r) \in remote.branches
                  /\ \A pull \in remote.pulls :
                        <<pull[1], pull[2], pull[3]>> # HeadBranchOf(r)
                  /\ \A i \in 1..Len(calls[r]) :
                        ~(calls[r][i].request.op = "create_pull_request" /\ calls[r][i].ok)
                  /\ Len(calls[r]) = RequestsBefore(step)
        /\ FailedAt(r, "direct") => (Len(calls[r]) = 1 /\ ~calls[r][1].ok)

C15_Witness ==
    \E r \in Runs :
        /\ FailedAt(r, "upsert_file")
        /\ HeadBranchOf(r) \in remote.branches
        /\ remote.pulls = {}
        /\ Len(calls[r]) = 3

\* The text release renders for run r.
Rendering(r) == serialize_brew(unwrap(brew[r]), TemplateOf(is_multitarget[r]))

\* C16: on the pull-request path the content of upsert_file is the content of
\* <name>.rb as read from disk after create_branch succeeded, not the rendering
\* held in memory, and a successful run returns the rendering on both paths:
\* a file changed between write and re-read is uploaded as changed while the
\* returned text is the original.
C16_UploadsFileAsRead ==
    [][\A r \in DOMAIN pc :
          /\ pf'[r].content # pf[r].content =>
                /\ pf'[r].content = Some(fs[FileName(unwrap(brew[r]).name)])
                /\ Len(calls[r]) = 2 /\ calls[r][2].ok
          /\ (OnPrPath(r) /\ Len(calls[r]) = 2 /\ Len(calls'[r]) = 3) =>
                /\ calls'[r][3].request.op = "upsert_file"
                /\ Some(calls'[r][3].request.content) = pf[r].content
          /\ outcome'[r] = "ok" => ret'[r] = Some(Rendering(r))
      ]_vars

C16_Witness ==
    \E r \in Runs :
        /\ OnPrPath(r)
        /\ outcome[r] = "ok"
        /\ calls[r][3].request.content = Edited(unwrap(data[r]))
        /\ ret[r] = Some(Rendering(r))
        /\ calls[r][3].request.content # unwrap(ret[r])

\* The state of the publish state machine a run is in, read off what the run
\* has done so far.
StateOf(r) ==
    CASE outcome[r] = "err" -> "Failed"
      [] outcome[r] = "ok" -> "PullRequestOpened"
      [] OTHER ->
            IF Len(calls[r]) >= 3 /\ calls[r][3].ok THEN "FileUploaded"
            ELSE IF Len(calls[r]) >= 2 /\ calls[r][2].ok THEN "BranchCreated"
            ELSE IF Len(calls[r]) >= 1 /\ calls[r][1].ok THEN "BaseShaResolved"
            ELSE IF is_some(written[r]) THEN "LocalWritten"
            ELSE IF is_some(data[r]) THEN "Rendered"
            ELSE "Idle"

\* The position of a state on the success path.
Order(state) ==
    CASE state = "Idle" -> 0
      [] state = "Rendered" -> 1
      [] state = "LocalWritten" -> 2
      [] state = "BaseShaResolved" -> 3
      [] state = "BranchCreated" -> 4
      [] state = "FileUploaded" -> 5
      [] state = "PullRequestOpened" -> 6
      [] OTHER -> 7

Terminal(r) == StateOf(r) \in {"PullRequestOpened", "Failed"}

\* Everything a run owns.
RunState(r) ==
    <<pc[r], outcome[r], tag[r], brew[r], data[r], pf[r], err[r], ret[r], calls[r],
      written[r]>>

\* C17: when every call returns, a pull-request run whose formula is assembled
\* ends in exactly one of PullRequestOpened and Failed; it goes through Idle,
\* Rendered, LocalWritten, BaseShaResolved, BranchCreated, FileUploaded one
\* after the other, never skipping or going back, and does nothing once it is in
\* a terminal state.
C17_PublishTerminates ==
    /\ [][\A r \in DOMAIN pc :
             OnPrPath(r) =>
                /\ \/ StateOf(r)' = StateOf(r)
                   \/ Order(StateOf(r)') = Order(StateOf(r)) + 1
                   \/ StateOf(r)' = "Failed"
                /\ Terminal(r) => RunState(r)' = RunState(r) /\ fs' = fs /\ remote' = remote
                /\ StateOf(r)' = "PullRequestOpened" =>
                      /\ Len(calls'[r]) = 4
                      /\ \A i \in 1..4 : calls'[r][i].ok
         ]_vars
    /\ \A r \in {1} : (OnPrPath(r) /\ is_some(brew[r])) ~> Terminal(r)

C17_Witness ==
    \E r \in Runs :
        /\ OnPrPath(r)
        /\ StateOf(r) = "PullRequestOpened"
        /\ pc[r] = "done"
        /\ remote.pulls # {}

\* The sequences of a sequence of sequences, one after the other.
RECURSIVE Concat(_)
Concat(seqs) == IF seqs = <<>> THEN <<>> ELSE Head(seqs) \o Concat(Tail(seqs))

\* C18: in the multi-target branch the archs of the Multi entries, taken in
\* output order one after the other, are the input artifacts mapped to
\* (arch, url, hash): nothing is dropped, duplicated or reordered, and two
\* adjacent Multi entries never have the same os.
C18_GroupsPreserveInput ==
    \A r \in Runs :
        (is_some(brew[r]) /\ MultiBranch(packages[r])) =>
            LET targets == unwrap(brew[r]).targets
                value == packages[r]
            IN  /\ \A i \in 1..Len(targets) :
                       targets[i].kind = "Multi" /\ targets[i].archs # <<>>
                /\ Concat([i \in 1..Len(targets) |-> targets[i].archs]) =
                      [i \in 1..Len(value) |->
                          [arch |-> unwrap(value[i].arch), url |-> value[i].url,
                           hash |-> value[i].sha256]]
                /\ \A i \in 1..(Len(targets) - 1) : targets[i].os # targets[i + 1].os

C18_Witness ==
    \E r \in Runs :
        /\ is_some(brew[r])
        /\ MultiBranch(packages[r])
        /\ Len(packages[r]) = 3
        /\ Len(unwrap(brew[r]).targets) = 2
        /\ Len(unwrap(brew[r]).targets[1].archs) = 2

\* The derived targets of run r are Multi entries.
MultiTargets(r) ==
    /\ unwrap(brew[r]).targets # <<>>
    /\ \A i \in 1..Len(unwrap(brew[r]).targets) : unwrap(brew[r]).targets[i].kind = "Multi"

\* C19: the rendering uses the multi-target template exactly when the caller's
\* is_multitarget flag is true, whatever the derived targets are; with the
\* flag main passes, the template is the single-target one even when the
\* targets are Multi entries.
C19_TemplateFollowsFlag ==
    \A r \in Runs :
        is_some(data[r]) =>
            /\ unwrap(data[r]).template = "MultiTarget" <=> is_multitarget[r]
            /\ unwrap(data[r]).template = "SingleTarget" <=> ~is_multitarget[r]
            /\ is_multitarget[r] = main_is_multitarget =>
                  unwrap(data[r]).template = "SingleTarget"
            /\ unwrap(data[r]).formula = unwrap(brew[r])

C19_Witness ==
    \E r \in Runs :
        /\ is_some(data[r])
        /\ is_multitarget[r] = main_is_multitarget
        /\ MultiTargets(r)
        /\ unwrap(data[r]).template = "SingleTarget"
        /\ outcome[r] = "ok"

====
